---- MODULE Spec2Model ----
(***************************************************************************)
(* Model of the DES engine of EncryptionSystem (src/ciphers/des_cipher.py) *)
(* and of the DESUtils helper it imports (utils/des_utils.py).             *)
(*                                                                         *)
(* A w-bit unsigned integer is a sequence of w bits, most significant bit  *)
(* first: position p of the sequence is bit p in the 1-based numbering of  *)
(* the DES tables.  A byte string is a sequence of numbers in 0..255, a    *)
(* text a sequence of Unicode code points.  Every sequence is built with   *)
(* SubSeq so that it is a tuple of values, not an unevaluated function.    *)
(***************************************************************************)
EXTENDS Integers, Sequences, FiniteSets, TLC

Bit == {0, 1}

XorBit(a, b) == (a + b) % 2

\* a ^ b on two integers of the same width
Xor(a, b) == SubSeq([i \in 1..Len(a) |-> XorBit(a[i], b[i])], 1, Len(a))

\* the value of a short bit sequence (at most 8 bits are ever converted)
RECURSIVE BitsToNat(_)
BitsToNat(bits) ==
    IF Len(bits) = 0 THEN 0
    ELSE 2 * BitsToNat(SubSeq(bits, 1, Len(bits) - 1)) + bits[Len(bits)]

\* the w-bit representation of n, 0 <= n < 2^w
NatToBits(n, w) == SubSeq([i \in 1..w |-> (n \div (2 ^ (w - i))) % 2], 1, w)

\* a 4*Len(digits)-bit integer written as hexadecimal digits
HexBits(digits) ==
    SubSeq([i \in 1..(4 * Len(digits)) |->
               (digits[((i - 1) \div 4) + 1] \div (2 ^ (3 - ((i - 1) % 4)))) % 2],
           1, 4 * Len(digits))

(***************************************************************************)
(* DESUtils: the fixed tables                                              *)
(***************************************************************************)
IP ==
    << 58, 50, 42, 34, 26, 18, 10, 2, 60, 52, 44, 36, 28, 20, 12, 4,
       62, 54, 46, 38, 30, 22, 14, 6, 64, 56, 48, 40, 32, 24, 16, 8,
       57, 49, 41, 33, 25, 17,  9, 1, 59, 51, 43, 35, 27, 19, 11, 3,
       61, 53, 45, 37, 29, 21, 13, 5, 63, 55, 47, 39, 31, 23, 15, 7 >>

IP_INV ==
    << 40, 8, 48, 16, 56, 24, 64, 32, 39, 7, 47, 15, 55, 23, 63, 31,
       38, 6, 46, 14, 54, 22, 62, 30, 37, 5, 45, 13, 53, 21, 61, 29,
       36, 4, 44, 12, 52, 20, 60, 28, 35, 3, 43, 11, 51, 19, 59, 27,
       34, 2, 42, 10, 50, 18, 58, 26, 33, 1, 41,  9, 49, 17, 57, 25 >>

E ==
    << 32,  1,  2,  3,  4,  5,  4,  5,  6,  7,  8,  9,
        8,  9, 10, 11, 12, 13, 12, 13, 14, 15, 16, 17,
       16, 17, 18, 19, 20, 21, 20, 21, 22, 23, 24, 25,
       24, 25, 26, 27, 28, 29, 28, 29, 30, 31, 32,  1 >>

P ==
    << 16,  7, 20, 21, 29, 12, 28, 17,  1, 15, 23, 26,  5, 18, 31, 10,
        2,  8, 24, 14, 32, 27,  3,  9, 19, 13, 30,  6, 22, 11,  4, 25 >>

\* mutant: the first entry selects the lowest key bit
PC1_parity ==
    << 64, 49, 41, 33, 25, 17,  9,  1, 58, 50, 42, 34, 26, 18,
       10,  2, 59, 51, 43, 35, 27, 19, 11,  3, 60, 52, 44, 36,
       63, 55, 47, 39, 31, 23, 15,  7, 62, 54, 46, 38, 30, 22,
       14,  6, 61, 53, 45, 37, 29, 21, 13,  5, 28, 20, 12,  4 >>

PC1 ==
    << 57, 49, 41, 33, 25, 17,  9,  1, 58, 50, 42, 34, 26, 18,
       10,  2, 59, 51, 43, 35, 27, 19, 11,  3, 60, 52, 44, 36,
       63, 55, 47, 39, 31, 23, 15,  7, 62, 54, 46, 38, 30, 22,
       14,  6, 61, 53, 45, 37, 29, 21, 13,  5, 28, 20, 12,  4 >>

PC2 ==
    << 14, 17, 11, 24,  1,  5,  3, 28, 15,  6, 21, 10,
       23, 19, 12,  4, 26,  8, 16,  7, 27, 20, 13,  2,
       41, 52, 31, 37, 47, 55, 30, 40, 51, 45, 33, 48,
       44, 49, 39, 56, 34, 53, 46, 42, 50, 36, 29, 32 >>

\* left-rotation amount of each of the 16 rounds
SHIFTS == << 1, 1, 2, 2, 2, 2, 2, 2, 1, 2, 2, 2, 2, 2, 2, 1 >>

\* S_BOXES[box][row + 1][column + 1]
S_BOXES ==
    << << << 14,  4, 13,  1,  2, 15, 11,  8,  3, 10,  6, 12,  5,  9,  0,  7 >>,
          <<  0, 15,  7,  4, 14,  2, 13,  1, 10,  6, 12, 11,  9,  5,  3,  8 >>,
          <<  4,  1, 14,  8, 13,  6,  2, 11, 15, 12,  9,  7,  3, 10,  5,  0 >>,
          << 15, 12,  8,  2,  4,  9,  1,  7,  5, 11,  3, 14, 10,  0,  6, 13 >> >>,
       << << 15,  1,  8, 14,  6, 11,  3,  4,  9,  7,  2, 13, 12,  0,  5, 10 >>,
          <<  3, 13,  4,  7, 15,  2,  8, 14, 12,  0,  1, 10,  6,  9, 11,  5 >>,
          <<  0, 14,  7, 11, 10,  4, 13,  1,  5,  8, 12,  6,  9,  3,  2, 15 >>,
          << 13,  8, 10,  1,  3, 15,  4,  2, 11,  6,  7, 12,  0,  5, 14,  9 >> >>,
       << << 10,  0,  9, 14,  6,  3, 15,  5,  1, 13, 12,  7, 11,  4,  2,  8 >>,
          << 13,  7,  0,  9,  3,  4,  6, 10,  2,  8,  5, 14, 12, 11, 15,  1 >>,
          << 13,  6,  4,  9,  8, 15,  3,  0, 11,  1,  2, 12,  5, 10, 14,  7 >>,
          <<  1, 10, 13,  0,  6,  9,  8,  7,  4, 15, 14,  3, 11,  5,  2, 12 >> >>,
       << <<  7, 13, 14,  3,  0,  6,  9, 10,  1,  2,  8,  5, 11, 12,  4, 15 >>,
          << 13,  8, 11,  5,  6, 15,  0,  3,  4,  7,  2, 12,  1, 10, 14,  9 >>,
          << 10,  6,  9,  0, 12, 11,  7, 13, 15,  1,  3, 14,  5,  2,  8,  4 >>,
          <<  3, 15,  0,  6, 10,  1, 13,  8,  9,  4,  5, 11, 12,  7,  2, 14 >> >>,
       << <<  2, 12,  4,  1,  7, 10, 11,  6,  8,  5,  3, 15, 13,  0, 14,  9 >>,
          << 14, 11,  2, 12,  4,  7, 13,  1,  5,  0, 15, 10,  3,  9,  8,  6 >>,
          <<  4,  2,  1, 11, 10, 13,  7,  8, 15,  9, 12,  5,  6,  3,  0, 14 >>,
          << 11,  8, 12,  7,  1, 14,  2, 13,  6, 15,  0,  9, 10,  4,  5,  3 >> >>,
       << << 12,  1, 10, 15,  9,  2,  6,  8,  0, 13,  3,  4, 14,  7,  5, 11 >>,
          << 10, 15,  4,  2,  7, 12,  9,  5,  6,  1, 13, 14,  0, 11,  3,  8 >>,
          <<  9, 14, 15,  5,  2,  8, 12,  3,  7,  0,  4, 10,  1, 13, 11,  6 >>,
          <<  4,  3,  2, 12,  9,  5, 15, 10, 11, 14,  1,  7,  6,  0,  8, 13 >> >>,
       << <<  4, 11,  2, 14, 15,  0,  8, 13,  3, 12,  9,  7,  5, 10,  6,  1 >>,
          << 13,  0, 11,  7,  4,  9,  1, 10, 14,  3,  5, 12,  2, 15,  8,  6 >>,
          <<  1,  4, 11, 13, 12,  3,  7, 14, 10, 15,  6,  8,  0,  5,  9,  2 >>,
          <<  6, 11, 13,  8,  1,  4, 10,  7,  9,  5,  0, 15, 14,  2,  3, 12 >> >>,
       << << 13,  2,  8,  4,  6, 15, 11,  1, 10,  9,  3, 14,  5,  0, 12,  7 >>,
          <<  1, 15, 13,  8, 10,  3,  7,  4, 12,  5,  6, 11,  0, 14,  9,  2 >>,
          <<  7, 11,  4,  1,  9, 12, 14,  2,  0,  6, 10, 13, 15,  3,  5,  8 >>,
          <<  2,  1, 14,  7,  4, 10,  8, 13, 15, 12,  9,  0,  3,  5,  6, 11 >> >> >>

(***************************************************************************)
(* DESUtils: permutation primitive, key schedule, round function           *)
(***************************************************************************)

\* bit p, counted from the most significant end, of the width-bit view of a
\* value: (value >> (width - p)) & 1
BitAt(value, p, width) ==
    LET idx == Len(value) - width + p
    IN  IF idx >= 1 /\ idx <= Len(value) THEN value[idx] ELSE 0

\* permute(value, table, width): output bit i is the bit of the width-bit
\* value at position table[i], both counted from the most significant end
permute(value, table, width) ==
    SubSeq([i \in 1..Len(table) |-> BitAt(value, table[i], width)],
           1, Len(table))

\* left rotation of a bit sequence by n places
RotateLeft(half, n) ==
    SubSeq([i \in 1..Len(half) |-> half[((i - 1 + n) % Len(half)) + 1]],
           1, Len(half))

\* generate_subkeys(key): the 16 round subkeys of 48 bits each
RECURSIVE SubkeysFrom(_, _, _)
SubkeysFrom(c, d, r) ==
    IF r > Len(SHIFTS) THEN << >>
    ELSE LET c2 == RotateLeft(c, SHIFTS[r])
             d2 == RotateLeft(d, SHIFTS[r])
         IN  << permute(c2 \o d2, PC2, 56) >> \o SubkeysFrom(c2, d2, r + 1)

\* mutant: the schedule stops one round early
generate_subkeys_short(key) ==
    LET k56 == permute(key, PC1, 64)
        all == SubkeysFrom(SubSeq(k56, 1, 28), SubSeq(k56, 29, 56), 1)
    IN  SubSeq(all, 1, Len(all) - 1)

generate_subkeys(key) ==
    LET k56 == permute(key, PC1, 64)
    IN  SubkeysFrom(SubSeq(k56, 1, 28), SubSeq(k56, 29, 56), 1)

\* the 4-bit output of S-box number box for a 6-bit group
SBoxLookup(box, group) ==
    LET row == 2 * group[1] + group[6]
        col == 8 * group[2] + 4 * group[3] + 2 * group[4] + group[5]
    IN  NatToBits(S_BOXES[box][row + 1][col + 1], 4)

\* f_function(right_half, subkey)
f_function(right, subkey) ==
    LET x == Xor(permute(right, E, 32), subkey)
        sbox(n) == SBoxLookup(n, SubSeq(x, 6 * n - 5, 6 * n))
        s == sbox(1) \o sbox(2) \o sbox(3) \o sbox(4)
                \o sbox(5) \o sbox(6) \o sbox(7) \o sbox(8)
    IN  permute(s, P, 32)

(***************************************************************************)
(* DESCipher: block transform                                              *)
(***************************************************************************)

\* mutant: the left half is not replaced by the previous right half
RoundStep_keepleft(left, right, subkey) ==
    << left, Xor(left, f_function(right, subkey)) >>

\* the loop body of lines 47-52 / 81-86: the halves after one round
RoundStep(left, right, subkey) ==
    << right, Xor(left, f_function(right, subkey)) >>

\* the halves before the first round and after each round of the loop of
\* lines 46-52 / 80-86, run over the subkeys in order
RECURSIVE FeistelTrace(_, _, _)
FeistelTrace(left, right, subkeys) ==
    IF subkeys = << >> THEN << << left, right >> >>
    ELSE LET next == RoundStep(left, right, Head(subkeys))
         IN  << << left, right >> >> \o FeistelTrace(next[1], next[2], Tail(subkeys))

\* the halves when the loop of lines 46-52 / 80-86 ends
FeistelRounds(left, right, subkeys) ==
    LET trace == FeistelTrace(left, right, subkeys)
    IN  trace[Len(trace)]

\* mutant: the order is reversed and so are the bits of each element
reversed_bits(s) ==
    SubSeq([i \in 1..Len(s) |->
               SubSeq([j \in 1..Len(s[Len(s) + 1 - i]) |->
                          s[Len(s) + 1 - i][Len(s[Len(s) + 1 - i]) + 1 - j]],
                      1, Len(s[Len(s) + 1 - i]))],
           1, Len(s))

\* reversed(subkeys)
reversed(s) == SubSeq([i \in 1..Len(s) |-> s[Len(s) + 1 - i]], 1, Len(s))

\* mutant: the halves are combined without the final swap
encrypt_block_noswap(block, key) ==
    LET subkeys == generate_subkeys(key)
        b == permute(block, IP, 64)
        lr == FeistelRounds(SubSeq(b, 1, 32), SubSeq(b, 33, 64), subkeys)
    IN  permute(lr[1] \o lr[2], IP_INV, 64)

encrypt_block(block, key) ==
    LET subkeys == generate_subkeys(key)
        b == permute(block, IP, 64)
        lr == FeistelRounds(SubSeq(b, 1, 32), SubSeq(b, 33, 64), subkeys)
    IN  permute(lr[2] \o lr[1], IP_INV, 64)

\* mutant: the subkeys are not reversed
decrypt_block_forward(block, key) ==
    LET subkeys == generate_subkeys(key)
        b == permute(block, IP, 64)
        lr == FeistelRounds(SubSeq(b, 1, 32), SubSeq(b, 33, 64), subkeys)
    IN  permute(lr[2] \o lr[1], IP_INV, 64)

decrypt_block(block, key) ==
    LET subkeys == generate_subkeys(key)
        b == permute(block, IP, 64)
        lr == FeistelRounds(SubSeq(b, 1, 32), SubSeq(b, 33, 64), reversed(subkeys))
    IN  permute(lr[2] \o lr[1], IP_INV, 64)

\* lines 39-56 of encrypt_block for a given list of subkeys: initial
\* permutation, split, one round per subkey, swap, final permutation
EncryptProcedure(block, subkeys) ==
    LET b == permute(block, IP, 64)
        lr == FeistelRounds(SubSeq(b, 1, 32), SubSeq(b, 33, 64), subkeys)
    IN  permute(lr[2] \o lr[1], IP_INV, 64)

\* the subkeys in the order the loop of the block operation op consumes them
SubkeyOrder(op, key) ==
    IF op = "decrypt_block" THEN reversed(generate_subkeys(key))
    ELSE generate_subkeys(key)

\* the halves held by left and right through a call of encrypt_block or
\* decrypt_block: after the split of lines 42-43 / 76-77 and after each round
BlockRounds(op, block, key) ==
    LET b == permute(block, IP, 64)
    IN  FeistelTrace(SubSeq(b, 1, 32), SubSeq(b, 33, 64), SubkeyOrder(op, key))

(***************************************************************************)
(* Conversions used by the byte-stream wrapper                             *)
(***************************************************************************)

\* mutant: the first byte is the least significant one
from_bytes_little(bytes) ==
    SubSeq([j \in 1..(8 * Len(bytes)) |->
               (bytes[Len(bytes) - ((j - 1) \div 8)] \div (2 ^ (7 - ((j - 1) % 8)))) % 2],
           1, 8 * Len(bytes))

\* int.from_bytes(bytes, 'big')
from_bytes(bytes) ==
    SubSeq([i \in 1..(8 * Len(bytes)) |->
               (bytes[((i - 1) \div 8) + 1] \div (2 ^ (7 - ((i - 1) % 8)))) % 2],
           1, 8 * Len(bytes))

\* value.to_bytes(8, 'big')
to_bytes(value) ==
    SubSeq([j \in 1..8 |-> BitsToNat(SubSeq(value, 8 * j - 7, 8 * j))], 1, 8)

\* the UTF-8 bytes of one code point
EncodeCodePoint(cp) ==
    IF cp < 128 THEN << cp >>
    ELSE IF cp < 2048 THEN << 192 + (cp \div 64), 128 + (cp % 64) >>
    ELSE IF cp < 65536
         THEN << 224 + (cp \div 4096), 128 + ((cp \div 64) % 64), 128 + (cp % 64) >>
    ELSE << 240 + (cp \div 262144), 128 + ((cp \div 4096) % 64),
            128 + ((cp \div 64) % 64), 128 + (cp % 64) >>

\* plaintext.encode('utf-8')
RECURSIVE utf8_encode(_)
utf8_encode(text) ==
    IF text = << >> THEN << >>
    ELSE EncodeCodePoint(Head(text)) \o utf8_encode(Tail(text))

IsContinuation(b) == b >= 128 /\ b <= 191

\* the number of bytes of the well-formed UTF-8 sequence that starts the
\* byte string, 0 when it starts with no well-formed sequence
SequenceLength(bytes) ==
    LET n  == Len(bytes)
        b1 == bytes[1]
        second(lo, hi) == n >= 2 /\ bytes[2] >= lo /\ bytes[2] <= hi
        third  == n >= 3 /\ IsContinuation(bytes[3])
        fourth == n >= 4 /\ IsContinuation(bytes[4])
    IN  IF b1 < 128 THEN 1
        ELSE IF b1 >= 194 /\ b1 <= 223 /\ second(128, 191) THEN 2
        ELSE IF b1 = 224 /\ second(160, 191) /\ third THEN 3
        ELSE IF b1 >= 225 /\ b1 <= 236 /\ second(128, 191) /\ third THEN 3
        ELSE IF b1 = 237 /\ second(128, 159) /\ third THEN 3
        ELSE IF b1 >= 238 /\ b1 <= 239 /\ second(128, 191) /\ third THEN 3
        ELSE IF b1 = 240 /\ second(144, 191) /\ third /\ fourth THEN 4
        ELSE IF b1 >= 241 /\ b1 <= 243 /\ second(128, 191) /\ third /\ fourth THEN 4
        ELSE IF b1 = 244 /\ second(128, 143) /\ third /\ fourth THEN 4
        ELSE 0

\* the code point written by a well-formed sequence of n bytes
DecodeCodePoint(bytes, n) ==
    IF n = 1 THEN bytes[1]
    ELSE IF n = 2 THEN (bytes[1] - 192) * 64 + (bytes[2] - 128)
    ELSE IF n = 3
         THEN (bytes[1] - 224) * 4096 + (bytes[2] - 128) * 64 + (bytes[3] - 128)
    ELSE (bytes[1] - 240) * 262144 + (bytes[2] - 128) * 4096
            + (bytes[3] - 128) * 64 + (bytes[4] - 128)

\* unpadded.decode('utf-8'): the text, or the UnicodeDecodeError
RECURSIVE utf8_decode(_)
utf8_decode(bytes) ==
    IF bytes = << >> THEN [error |-> FALSE, text |-> << >>]
    ELSE LET n == SequenceLength(bytes)
         IN  IF n = 0 THEN [error |-> TRUE, text |-> << >>]
             ELSE LET rest == utf8_decode(SubSeq(bytes, n + 1, Len(bytes)))
                  IN  IF rest.error THEN rest
                      ELSE [error |-> FALSE,
                            text  |-> << DecodeCodePoint(bytes, n) >> \o rest.text]

(***************************************************************************)
(* DESCipher: padding                                                      *)
(***************************************************************************)
block_size == 8

\* mutant: no padding is added to block-aligned data
_pad_data_aligned(data) ==
    LET pad_length == (block_size - (Len(data) % block_size)) % block_size
    IN  data \o SubSeq([i \in 1..pad_length |-> pad_length], 1, pad_length)

_pad_data(data) ==
    LET pad_length == block_size - (Len(data) % block_size)
    IN  data \o SubSeq([i \in 1..pad_length |-> pad_length], 1, pad_length)

\* mutant: a full block of padding is rejected (pad_length >= 8)
_unpad_data_strict(data) ==
    IF Len(data) = 0 THEN [status |-> "index", data |-> << >>]
    ELSE LET pad_length == data[Len(data)]
             bad == {i \in 1..pad_length : i > Len(data) \/ data[Len(data) + 1 - i] # pad_length}
         IN  IF pad_length >= 8 \/ bad # {} THEN [status |-> "padding", data |-> << >>]
             ELSE IF pad_length = 0 THEN [status |-> "ok", data |-> << >>]
             ELSE [status |-> "ok",
                   data |-> SubSeq(data, 1, Len(data) - pad_length)]

\* mutant: the trailing bytes are not compared with the pad length
_unpad_data_unchecked(data) ==
    IF Len(data) = 0 THEN [status |-> "index", data |-> << >>]
    ELSE LET pad_length == data[Len(data)]
         IN  IF pad_length > 8 THEN [status |-> "padding", data |-> << >>]
             ELSE IF pad_length = 0 THEN [status |-> "ok", data |-> << >>]
             ELSE [status |-> "ok",
                   data |-> SubSeq(data, 1, Len(data) - pad_length)]

\* _unpad_data(data): the unpadded bytes, or the error raised.  "index" is
\* the IndexError of data[-1] or data[-i] on a sequence that is too short.
_unpad_data(data) ==
    IF Len(data) = 0 THEN [status |-> "index", data |-> << >>]
    ELSE LET pad_length == data[Len(data)]
             bad == {i \in 1..pad_length : i > Len(data) \/ data[Len(data) + 1 - i] # pad_length}
             first == CHOOSE i \in bad : \A j \in bad : i <= j
         IN  IF pad_length > 8 THEN [status |-> "padding", data |-> << >>]
             ELSE IF bad # {} /\ first > Len(data)
                  THEN [status |-> "index", data |-> << >>]
             ELSE IF bad # {} THEN [status |-> "padding", data |-> << >>]
             ELSE IF pad_length = 0 THEN [status |-> "ok", data |-> << >>]
             ELSE [status |-> "ok",
                   data |-> SubSeq(data, 1, Len(data) - pad_length)]

(***************************************************************************)
(* Inputs                                                                  *)
(***************************************************************************)

\* longest text, in code points, drawn from CodePoints
MaxTextLen == 3

ZeroKey   == HexBits(<< 0, 0, 0, 0, 0, 0, 0, 0, 0, 0, 0, 0, 0, 0, 0, 0 >>)
OnesKey   == HexBits(<< 15, 15, 15, 15, 15, 15, 15, 15, 15, 15, 15, 15, 15, 15, 15, 15 >>)
\* 0x133457799BBCDFF1, the key of the published test vector
VectorKey == HexBits(<< 1, 3, 3, 4, 5, 7, 7, 9, 9, 11, 11, 12, 13, 15, 15, 1 >>)
\* 0x133457799BBCDF00: VectorKey with its low 8 bits cleared
LowByteKey == HexBits(<< 1, 3, 3, 4, 5, 7, 7, 9, 9, 11, 11, 12, 13, 15, 0, 0 >>)
\* 0x123456789ABCDEF0: VectorKey with the lowest bit of each byte cleared
ParityKey == HexBits(<< 1, 2, 3, 4, 5, 6, 7, 8, 9, 10, 11, 12, 13, 14, 15, 0 >>)

Keys == { ZeroKey, OnesKey, VectorKey, LowByteKey, ParityKey }

\* keys used for encrypt and decrypt of byte streams
StreamKeys == { VectorKey, ZeroKey }

\* 0x0123456789ABCDEF, the plaintext of the published test vector
VectorBlock == HexBits(<< 0, 1, 2, 3, 4, 5, 6, 7, 8, 9, 10, 11, 12, 13, 14, 15 >>)

\* blocks handed to encrypt_block and decrypt_block; the last four are final
\* blocks whose padding is zero, well formed over undecodable bytes,
\* inconsistent, and too long
Blocks ==
    { from_bytes(<< 0, 0, 0, 0, 0, 0, 0, 0 >>),
      VectorBlock,
      from_bytes(<< 65, 65, 65, 65, 65, 65, 65, 0 >>),
      from_bytes(<< 255, 7, 7, 7, 7, 7, 7, 7 >>),
      from_bytes(<< 65, 65, 65, 65, 65, 3, 2, 3 >>),
      from_bytes(<< 65, 65, 65, 65, 65, 65, 65, 9 >>) }

\* 'A', e-acute, the euro sign: one, two and three bytes of UTF-8
CodePoints == { 65, 233, 8364 }

RECURSIVE TextsOfLen(_)
TextsOfLen(n) ==
    IF n = 0 THEN { << >> }
    ELSE { Append(t, c) : t \in TextsOfLen(n - 1), c \in CodePoints }

\* the texts handed to encrypt; the last two are two and four four-byte code
\* points: one and two equal blocks of 8 bytes
Texts ==
    UNION { TextsOfLen(n) : n \in 0..MaxTextLen }
        \cup { << 128512, 128512 >>, << 128512, 128512, 128512, 128512 >> }

\* t with its last code point replaced by the next one, which has as many
\* bytes of UTF-8
ReplaceLast(t) ==
    IF t = << >> THEN t
    ELSE SubSeq(t, 1, Len(t) - 1) \o << t[Len(t)] + 1 >>

\* values written over the last byte of a ciphertext in transit
TamperValues == { 200, 77 }

\* byte strings handed to decrypt that no encrypt call produced
RawCiphertexts == { << >>, << 1, 2, 3, 4, 5, 6, 7 >>,
                    << 1, 2, 3, 4, 5, 6, 7, 8, 9 >> }

\* bytes[lo:hi]
Slice(bytes, lo, hi) ==
    SubSeq(bytes, lo + 1, IF hi < Len(bytes) THEN hi ELSE Len(bytes))

\* c with its last byte replaced by v
Tamper(c, v) == SubSeq(c, 1, Len(c) - 1) \o << v >>

\* c without its last byte
Truncate(c) == SubSeq(c, 1, Len(c) - 1)

(***************************************************************************)
(* State: a caller makes up to two consecutive calls on one DESCipher      *)
(* object and then starts over.  cur and prev record the last two          *)
(* completed calls; the other variables are the locals of the encrypt or   *)
(* decrypt call that is running or ran last.                               *)
(***************************************************************************)
VARIABLES
    pc,          \* "idle", or the position inside encrypt / decrypt
    call,        \* the running encrypt or decrypt call: op, key, arg
    cur,         \* the last completed call: op, key, arg, out, status
    prev,        \* the completed call before cur
    data,        \* encrypt: plaintext.encode('utf-8')
    padded_data, \* encrypt: _pad_data(data)
    result,      \* the bytearray of encrypt / decrypt
    i,           \* the loop index of encrypt / decrypt
    calls,       \* block transforms made by the running or last stream call
    unpadded     \* decrypt: the value returned by _unpad_data

\* Two callers that share one engine: each has the locals of its own call,
\* the engine holds self.utils.
VARIABLES
    frames,      \* per caller: the call it is in, its locals and its outcome
    tables       \* the tables of self.utils

\* One MonoalphabeticCipher object and the last two calls made on it.  A
\* character is its code point, a str is a tuple of characters and a dict is
\* the tuple of its items << key, value >> in insertion order.
VARIABLES
    language,          \* self.language
    alphabet,          \* self.alphabet
    substitution_map,  \* self.substitution_map
    reverse_map,       \* self.reverse_map
    mono_cur,          \* the last completed call: op, arg, out, status
    mono_prev          \* the completed call before mono_cur

\* One AffineCipher object and the last two calls made on it.
VARIABLES
    affine_cipher,     \* the object: language, alphabet, m, valid_a_values
    affine_cur,        \* the last completed call: op, text, a, b, out, status
    affine_prev        \* the completed call before affine_cur

\* One PolyalphabeticCipher object and the last two calls made on it.
VARIABLES
    poly_cipher,       \* the object: language, alphabet, m
    poly_cur,          \* the last completed call: op, text, key, out, status
    poly_prev          \* the completed call before poly_cur

sequential == << pc, call, cur, prev, data, padded_data, result, i, calls, unpadded >>

concurrent == << frames, tables >>

monoalphabetic ==
    << language, alphabet, substitution_map, reverse_map, mono_cur, mono_prev >>

affine == << affine_cipher, affine_cur, affine_prev >>

polyalphabetic == << poly_cipher, poly_cur, poly_prev >>

\* what the calls of one caller at a time leave alone
others == << concurrent, monoalphabetic, affine, polyalphabetic >>

vars == << sequential, others >>

locals == << data, padded_data, result, i, calls, unpadded >>

NoCall == [op |-> "none", key |-> << >>, arg |-> << >>, out |-> << >>, status |-> "ok"]

Completed(op, key, arg, out, status) ==
    [op |-> op, key |-> key, arg |-> arg, out |-> out, status |-> status]

\* the callers that share the engine
Callers == { 1, 2 }

\* string.ascii_uppercase
ascii_uppercase == SubSeq([j \in 1..26 |-> 64 + j], 1, 26)

\* MonoalphabeticCipher.__init__, lines 20-23: the characters of the 'es'
\* literal are A..N, U+00C3, U+2018, O..Z
alphabets ==
    [en |-> ascii_uppercase,
     es |-> SubSeq(ascii_uppercase, 1, 14) \o << 195, 8216 >>
                \o SubSeq(ascii_uppercase, 15, 26)]

NoMonoCall == [op |-> "none", arg |-> << >>, out |-> << >>, status |-> "ok"]

\* AffineCipher._gcd, lines 30-34
RECURSIVE _gcd(_, _)
_gcd(a, b) == IF b = 0 THEN a ELSE _gcd(b, a % b)

\* mutant: every a from 1 to m - 1 is taken as valid
_get_valid_a_values_all(m) == 1..(m - 1)

\* AffineCipher._get_valid_a_values, lines 26-28
_get_valid_a_values(m) == { a \in 1..(m - 1) : _gcd(a, m) = 1 }

\* AffineCipher.__init__, lines 17-24; the alphabets are those of
\* MonoalphabeticCipher, an unknown language falls back to English
AffineCipher(lang) ==
    LET alpha == IF lang \in DOMAIN alphabets THEN alphabets[lang] ELSE alphabets["en"]
    IN  [language |-> lang, alphabet |-> alpha, m |-> Len(alpha),
         valid_a_values |-> _get_valid_a_values(Len(alpha))]

NoAffineCall ==
    [op |-> "none", text |-> << >>, a |-> 0, b |-> 0, out |-> << >>, status |-> "ok"]

\* PolyalphabeticCipher.__init__, lines 20-26; the alphabets are those of
\* MonoalphabeticCipher, an unknown language falls back to English
PolyalphabeticCipher(lang) ==
    LET alpha == IF lang \in DOMAIN alphabets THEN alphabets[lang] ELSE alphabets["en"]
    IN  [language |-> lang, alphabet |-> alpha, m |-> Len(alpha)]

NoPolyCall ==
    [op |-> "none", text |-> << >>, key |-> << >>, out |-> << >>, status |-> "ok"]

\* a caller that is in no call
IdleFrame ==
    [pc |-> "idle", op |-> "none", key |-> << >>, arg |-> << >>,
     result |-> << >>, i |-> 0, unpadded |-> << >>,
     out |-> << >>, status |-> "ok"]

\* the tables self.utils holds after __init__
EngineTables ==
    [IP |-> IP, IP_INV |-> IP_INV, E |-> E, P |-> P, PC1 |-> PC1, PC2 |-> PC2,
     SHIFTS |-> SHIFTS, S_BOXES |-> S_BOXES]

Init ==
    /\ pc = "idle"
    /\ call = NoCall
    /\ cur = NoCall
    /\ prev = NoCall
    /\ data = << >>
    /\ padded_data = << >>
    /\ result = << >>
    /\ i = 0
    /\ calls = 0
    /\ unpadded = << >>
    /\ frames = [c \in Callers |-> IdleFrame]
    /\ tables = EngineTables
    /\ language = "en"
    /\ alphabet = alphabets["en"]
    /\ substitution_map = << >>
    /\ reverse_map = << >>
    /\ mono_cur = NoMonoCall
    /\ mono_prev = NoMonoCall
    /\ affine_cipher = AffineCipher("en")
    /\ affine_cur = NoAffineCall
    /\ affine_prev = NoAffineCall
    /\ poly_cipher = PolyalphabeticCipher("en")
    /\ poly_cur = NoPolyCall
    /\ poly_prev = NoPolyCall

\* the caller may start a call
CanCall == pc = "idle" /\ prev.op = "none"

\* the completed call becomes cur, the former cur becomes prev
Return(c) ==
    /\ cur' = c
    /\ prev' = cur
    /\ call' = NoCall
    /\ pc' = "idle"

BlockOps == { "encrypt_block", "decrypt_block" }

\* the blocks a caller passes: any first, then the previous argument or result
BlockArgs ==
    IF cur.op = "none" THEN Blocks
    ELSE IF cur.op \in BlockOps THEN { cur.arg, cur.out }
    ELSE { }

\* value << n on an unbounded integer: n zero bits are appended
ShiftLeft(value, n) == value \o SubSeq([j \in 1..n |-> 0], 1, n)

\* the values random.getrandbits(56) can return, as 56 bits
RandomBits56 ==
    { SubSeq([j \in 1..56 |-> 0], 1, 56),
      SubSeq([j \in 1..56 |-> 1], 1, 56),
      SubSeq([j \in 1..56 |-> j % 2], 1, 56),
      HexBits(<< 1, 3, 3, 4, 5, 7, 7, 9, 9, 11, 11, 12, 13, 15 >>) }

\* mutant: the random value is shifted by 7 bits only
generate_key_short(random_bits) == ShiftLeft(random_bits, 7)

\* generate_key, lines 19-22, for the value getrandbits returned
generate_key(random_bits) == ShiftLeft(random_bits, 8)

GenerateKey(r) ==
    /\ CanCall
    /\ cur.op = "none"
    /\ Return(Completed("generate_key", << >>, r, generate_key(r), "ok"))
    /\ UNCHANGED locals
    /\ UNCHANGED others

GenerateSubkeys(k) ==
    /\ CanCall
    /\ cur.op \in { "none", "generate_subkeys" }
    /\ Return(Completed("generate_subkeys", k, k, generate_subkeys(k), "ok"))
    /\ UNCHANGED locals
    /\ UNCHANGED others

EncryptBlock(b, k) ==
    /\ CanCall
    /\ b \in BlockArgs
    /\ Return(Completed("encrypt_block", k, b, encrypt_block(b, k), "ok"))
    /\ UNCHANGED locals
    /\ UNCHANGED others

DecryptBlock(b, k) ==
    /\ CanCall
    /\ b \in BlockArgs
    /\ Return(Completed("decrypt_block", k, b, decrypt_block(b, k), "ok"))
    /\ UNCHANGED locals
    /\ UNCHANGED others

\* the texts a caller hands to encrypt with key k: any first, then the same
\* text or the text with its last code point changed, under the same key
Plaintexts(k) ==
    IF cur.op = "none" THEN Texts
    ELSE IF cur.op = "encrypt" /\ k = cur.key THEN { cur.arg, ReplaceLast(cur.arg) }
    ELSE { }

\* encrypt, lines 104-107
EncryptStart(t, k) ==
    /\ CanCall
    /\ t \in Plaintexts(k)
    /\ call' = [NoCall EXCEPT !.op = "encrypt", !.key = k, !.arg = t]
    /\ data' = utf8_encode(t)
    /\ padded_data' = _pad_data(utf8_encode(t))
    /\ result' = << >>
    /\ i' = 0
    /\ calls' = 0
    /\ unpadded' = << >>
    /\ pc' = "enc_loop"
    /\ UNCHANGED << cur, prev >>
    /\ UNCHANGED others

\* mutant: each block is combined with the previous ciphertext block before
\* it is encrypted
EncryptStep_chained ==
    /\ pc = "enc_loop"
    /\ i < Len(padded_data)
    /\ LET block == from_bytes(Slice(padded_data, i, i + 8))
           chained == IF i = 0 THEN block
                      ELSE Xor(block, from_bytes(Slice(result, i - 8, i)))
           encrypted_block == encrypt_block(chained, call.key)
       IN  result' = result \o to_bytes(encrypted_block)
    /\ i' = i + 8
    /\ calls' = calls + 1
    /\ UNCHANGED << pc, call, cur, prev, data, padded_data, unpadded >>
    /\ UNCHANGED others

\* encrypt, lines 109-112: one iteration of the loop
EncryptStep ==
    /\ pc = "enc_loop"
    /\ i < Len(padded_data)
    /\ LET block == from_bytes(Slice(padded_data, i, i + 8))
           encrypted_block == encrypt_block(block, call.key)
       IN  result' = result \o to_bytes(encrypted_block)
    /\ i' = i + 8
    /\ calls' = calls + 1
    /\ UNCHANGED << pc, call, cur, prev, data, padded_data, unpadded >>
    /\ UNCHANGED others

\* encrypt, line 114
EncryptReturn ==
    /\ pc = "enc_loop"
    /\ i >= Len(padded_data)
    /\ Return(Completed("encrypt", call.key, call.arg, result, "ok"))
    /\ UNCHANGED locals
    /\ UNCHANGED others

\* the byte strings a caller hands to decrypt with key k
Ciphertexts(k) ==
    IF cur.op = "none" THEN RawCiphertexts
    ELSE IF cur.op = "encrypt"
         THEN IF k = cur.key
              THEN { cur.out, Truncate(cur.out) }
                      \cup { Tamper(cur.out, v) : v \in TamperValues }
              ELSE { cur.out }
    ELSE IF cur.op = "encrypt_block" /\ k = cur.key THEN { to_bytes(cur.out) }
    ELSE { }

\* mutant: the length of the ciphertext is not checked
LengthInvalid_never(c) == FALSE

\* decrypt, line 127: the length check
LengthInvalid(c) == Len(c) % 8 # 0

\* decrypt, lines 127-130
DecryptStart(c, k) ==
    /\ CanCall
    /\ c \in Ciphertexts(k)
    /\ data' = << >>
    /\ padded_data' = << >>
    /\ result' = << >>
    /\ i' = 0
    /\ calls' = 0
    /\ unpadded' = << >>
    /\ IF LengthInvalid(c)
       THEN Return(Completed("decrypt", k, c, << >>, "length"))
       ELSE /\ call' = [NoCall EXCEPT !.op = "decrypt", !.key = k, !.arg = c]
            /\ pc' = "dec_loop"
            /\ UNCHANGED << cur, prev >>
    /\ UNCHANGED others

\* decrypt, lines 133-136: one iteration of the loop
DecryptStep ==
    /\ pc = "dec_loop"
    /\ i < Len(call.arg)
    /\ LET block == from_bytes(Slice(call.arg, i, i + 8))
           decrypted_block == decrypt_block(block, call.key)
       IN  result' = result \o to_bytes(decrypted_block)
    /\ i' = i + 8
    /\ calls' = calls + 1
    /\ UNCHANGED << pc, call, cur, prev, data, padded_data, unpadded >>
    /\ UNCHANGED others

\* mutant: the padding is checked as soon as one block has been decrypted
DecryptUnpad_early ==
    /\ pc = "dec_loop"
    /\ i >= 8
    /\ LET u == _unpad_data(result)
       IN  IF u.status = "ok"
           THEN /\ unpadded' = u.data
                /\ pc' = "dec_decode"
                /\ UNCHANGED << call, cur, prev >>
           ELSE /\ Return(Completed("decrypt", call.key, call.arg, << >>, u.status))
                /\ UNCHANGED unpadded
    /\ UNCHANGED << data, padded_data, result, i, calls >>
    /\ UNCHANGED others

\* decrypt, line 139
DecryptUnpad ==
    /\ pc = "dec_loop"
    /\ i >= Len(call.arg)
    /\ LET u == _unpad_data(result)
       IN  IF u.status = "ok"
           THEN /\ unpadded' = u.data
                /\ pc' = "dec_decode"
                /\ UNCHANGED << call, cur, prev >>
           ELSE /\ Return(Completed("decrypt", call.key, call.arg, << >>, u.status))
                /\ UNCHANGED unpadded
    /\ UNCHANGED << data, padded_data, result, i, calls >>
    /\ UNCHANGED others

\* decrypt, line 140
DecryptDecode ==
    /\ pc = "dec_decode"
    /\ LET d == utf8_decode(unpadded)
       IN  IF d.error
           THEN Return(Completed("decrypt", call.key, call.arg, << >>, "decode"))
           ELSE Return(Completed("decrypt", call.key, call.arg, d.text, "ok"))
    /\ UNCHANGED locals
    /\ UNCHANGED others

\* the caller drops what it holds and starts over
Reset ==
    /\ pc = "idle"
    /\ cur.op # "none"
    /\ pc' = "idle"
    /\ call' = NoCall
    /\ cur' = NoCall
    /\ prev' = NoCall
    /\ data' = << >>
    /\ padded_data' = << >>
    /\ result' = << >>
    /\ i' = 0
    /\ calls' = 0
    /\ unpadded' = << >>
    /\ UNCHANGED others

Next ==
    \/ \E r \in RandomBits56 : GenerateKey(r)
    \/ \E k \in Keys : GenerateSubkeys(k)
    \/ \E k \in Keys : \E b \in BlockArgs : EncryptBlock(b, k)
    \/ \E k \in Keys : \E b \in BlockArgs : DecryptBlock(b, k)
    \/ \E k \in StreamKeys : \E t \in Plaintexts(k) : EncryptStart(t, k)
    \/ EncryptStep
    \/ EncryptReturn
    \/ \E k \in Keys : \E c \in Ciphertexts(k) : DecryptStart(c, k)
    \/ DecryptStep
    \/ DecryptUnpad
    \/ DecryptDecode
    \/ Reset

Spec == Init /\ [][Next]_vars

(***************************************************************************)
(* Two callers on one engine.  A block operation touches nothing but its   *)
(* own locals and is one step; encrypt and decrypt advance one loop        *)
(* iteration or one statement at a time, so the steps of the two callers   *)
(* interleave in every order.                                              *)
(***************************************************************************)

\* encrypt, lines 109-112, for all the blocks of padded_data
RECURSIVE EncryptBlocks(_, _)
EncryptBlocks(padded, key) ==
    IF Len(padded) = 0 THEN << >>
    ELSE to_bytes(encrypt_block(from_bytes(Slice(padded, 0, 8)), key))
             \o EncryptBlocks(Slice(padded, 8, Len(padded)), key)

\* decrypt, lines 133-136, for all the blocks of the ciphertext
RECURSIVE DecryptBlocks(_, _)
DecryptBlocks(ciphertext, key) ==
    IF Len(ciphertext) = 0 THEN << >>
    ELSE to_bytes(decrypt_block(from_bytes(Slice(ciphertext, 0, 8)), key))
             \o DecryptBlocks(Slice(ciphertext, 8, Len(ciphertext)), key)

\* encrypt, lines 92-114, run from call to return
encrypt(plaintext, key) ==
    [status |-> "ok", out |-> EncryptBlocks(_pad_data(utf8_encode(plaintext)), key)]

\* decrypt, lines 116-140, run from call to return or raise
decrypt(ciphertext, key) ==
    IF LengthInvalid(ciphertext) THEN [status |-> "length", out |-> << >>]
    ELSE LET u == _unpad_data(DecryptBlocks(ciphertext, key))
         IN  IF u.status # "ok" THEN [status |-> u.status, out |-> << >>]
             ELSE LET d == utf8_decode(u.data)
                  IN  IF d.error THEN [status |-> "decode", out |-> << >>]
                      ELSE [status |-> "ok", out |-> d.text]

\* the outcome of a call that runs from start to end with no other call
RunAlone(op, key, arg) ==
    IF op = "generate_subkeys" THEN [status |-> "ok", out |-> generate_subkeys(key)]
    ELSE IF op = "encrypt_block" THEN [status |-> "ok", out |-> encrypt_block(arg, key)]
    ELSE IF op = "decrypt_block" THEN [status |-> "ok", out |-> decrypt_block(arg, key)]
    ELSE IF op = "encrypt" THEN encrypt(arg, key)
    ELSE decrypt(arg, key)

\* a text of one byte and a text of eight bytes
SharedTexts == { << 65 >>, << 8364, 8364, 233 >> }

\* ciphertexts that decrypt to a text, fail the length check, fail the
\* padding check and fail the decoding
SharedCiphertexts ==
    { encrypt(<< 65 >>, VectorKey).out,
      << 1, 2, 3, 4, 5, 6, 7 >>,
      to_bytes(VectorBlock),
      to_bytes(encrypt_block(from_bytes(<< 255, 7, 7, 7, 7, 7, 7, 7 >>), VectorKey)) }

\* the calls the two callers make
SharedCalls ==
    { [op |-> "generate_subkeys", key |-> VectorKey, arg |-> VectorKey] }
        \cup { [op |-> o, key |-> VectorKey, arg |-> VectorBlock] : o \in BlockOps }
        \cup { [op |-> "encrypt", key |-> k, arg |-> t] :
                   k \in StreamKeys, t \in SharedTexts }
        \cup { [op |-> "decrypt", key |-> VectorKey, arg |-> c] : c \in SharedCiphertexts }

\* caller c returns or raises
Finish(c, out, status) ==
    frames' = [frames EXCEPT ![c].pc = "done", ![c].out = out, ![c].status = status]

\* generate_subkeys, encrypt_block, decrypt_block
SharedBlockCall(c, x) ==
    /\ frames[c].pc = "idle"
    /\ x.op \in BlockOps \cup { "generate_subkeys" }
    /\ LET r == RunAlone(x.op, x.key, x.arg)
       IN  frames' = [frames EXCEPT ![c] =
               [IdleFrame EXCEPT !.pc = "done", !.op = x.op, !.key = x.key,
                                 !.arg = x.arg, !.out = r.out, !.status = r.status]]
    /\ UNCHANGED << tables, sequential, monoalphabetic, affine, polyalphabetic >>

\* encrypt, lines 104-107; decrypt, lines 127-130
SharedStart(c, x) ==
    /\ frames[c].pc = "idle"
    /\ x.op \in { "encrypt", "decrypt" }
    /\ LET started == [IdleFrame EXCEPT !.op = x.op, !.key = x.key, !.arg = x.arg]
       IN  frames' = [frames EXCEPT ![c] =
               IF x.op = "encrypt" THEN [started EXCEPT !.pc = "enc_loop"]
               ELSE IF LengthInvalid(x.arg)
                    THEN [started EXCEPT !.pc = "done", !.status = "length"]
                    ELSE [started EXCEPT !.pc = "dec_loop"]]
    /\ UNCHANGED << tables, sequential, monoalphabetic, affine, polyalphabetic >>

\* mutant: the bytearray is an attribute of the engine, every caller appends
\* to the same one
SharedEncryptStep_attribute(c) ==
    /\ frames[c].pc = "enc_loop"
    /\ LET f == frames[c]
           padded == _pad_data(utf8_encode(f.arg))
       IN  /\ f.i < Len(padded)
           /\ LET bytes == to_bytes(encrypt_block(
                               from_bytes(Slice(padded, f.i, f.i + 8)), f.key))
              IN  frames' = [d \in Callers |->
                      IF d = c
                      THEN [f EXCEPT !.result = f.result \o bytes, !.i = f.i + 8]
                      ELSE IF frames[d].pc = "enc_loop"
                           THEN [frames[d] EXCEPT !.result = frames[d].result \o bytes]
                           ELSE frames[d]]
    /\ UNCHANGED << tables, sequential, monoalphabetic, affine, polyalphabetic >>

\* encrypt, lines 109-112: one iteration of the loop
SharedEncryptStep(c) ==
    /\ frames[c].pc = "enc_loop"
    /\ LET f == frames[c]
           padded == _pad_data(utf8_encode(f.arg))
       IN  /\ f.i < Len(padded)
           /\ LET bytes == to_bytes(encrypt_block(
                               from_bytes(Slice(padded, f.i, f.i + 8)), f.key))
              IN  frames' = [frames EXCEPT ![c].result = f.result \o bytes,
                                           ![c].i = f.i + 8]
    /\ UNCHANGED << tables, sequential, monoalphabetic, affine, polyalphabetic >>

\* encrypt, line 114
SharedEncryptReturn(c) ==
    /\ frames[c].pc = "enc_loop"
    /\ frames[c].i >= Len(_pad_data(utf8_encode(frames[c].arg)))
    /\ Finish(c, frames[c].result, "ok")
    /\ UNCHANGED << tables, sequential, monoalphabetic, affine, polyalphabetic >>

\* decrypt, lines 133-136: one iteration of the loop
SharedDecryptStep(c) ==
    /\ frames[c].pc = "dec_loop"
    /\ LET f == frames[c]
       IN  /\ f.i < Len(f.arg)
           /\ LET bytes == to_bytes(decrypt_block(
                               from_bytes(Slice(f.arg, f.i, f.i + 8)), f.key))
              IN  frames' = [frames EXCEPT ![c].result = f.result \o bytes,
                                           ![c].i = f.i + 8]
    /\ UNCHANGED << tables, sequential, monoalphabetic, affine, polyalphabetic >>

\* decrypt, line 139
SharedDecryptUnpad(c) ==
    /\ frames[c].pc = "dec_loop"
    /\ frames[c].i >= Len(frames[c].arg)
    /\ LET u == _unpad_data(frames[c].result)
       IN  IF u.status = "ok"
           THEN frames' = [frames EXCEPT ![c].pc = "dec_decode", ![c].unpadded = u.data]
           ELSE Finish(c, << >>, u.status)
    /\ UNCHANGED << tables, sequential, monoalphabetic, affine, polyalphabetic >>

\* decrypt, line 140
SharedDecryptDecode(c) ==
    /\ frames[c].pc = "dec_decode"
    /\ LET d == utf8_decode(frames[c].unpadded)
       IN  IF d.error THEN Finish(c, << >>, "decode")
           ELSE Finish(c, d.text, "ok")
    /\ UNCHANGED << tables, sequential, monoalphabetic, affine, polyalphabetic >>

\* the caller has its result or its exception and is free for another call
SharedDone(c) ==
    /\ frames[c].pc = "done"
    /\ frames' = [frames EXCEPT ![c] = IdleFrame]
    /\ UNCHANGED << tables, sequential, monoalphabetic, affine, polyalphabetic >>

NextShared ==
    \/ \E c \in Callers : \E x \in SharedCalls : SharedBlockCall(c, x)
    \/ \E c \in Callers : \E x \in SharedCalls : SharedStart(c, x)
    \/ \E c \in Callers : SharedEncryptStep(c)
    \/ \E c \in Callers : SharedEncryptReturn(c)
    \/ \E c \in Callers : SharedDecryptStep(c)
    \/ \E c \in Callers : SharedDecryptUnpad(c)
    \/ \E c \in Callers : SharedDecryptDecode(c)
    \/ \E c \in Callers : SharedDone(c)

SpecShared == Init /\ [][NextShared]_vars

(***************************************************************************)
(* MonoalphabeticCipher                                                    *)
(***************************************************************************)

\* the characters of a str, as a set
Chars(str) == { str[j] : j \in 1..Len(str) }

\* str.upper() for the characters the texts of the model are made of
upper_char(c) ==
    IF c \in 97..122 THEN c - 32
    ELSE IF c = 227 THEN 195
    ELSE c

upper(str) == SubSeq([j \in 1..Len(str) |-> upper_char(str[j])], 1, Len(str))

\* dict.keys(), dict.values(), key in dict, dict[key]
DictKeys(d) == { d[j][1] : j \in 1..Len(d) }

DictValues(d) == { d[j][2] : j \in 1..Len(d) }

DictGet(d, k) == d[CHOOSE j \in 1..Len(d) : d[j][1] = k][2]

\* d[k] = v: the value of an existing key is replaced in place, a new key is
\* appended
DictPut(d, k, v) ==
    IF k \in DictKeys(d)
    THEN SubSeq([j \in 1..Len(d) |-> IF d[j][1] = k THEN << k, v >> ELSE d[j]], 1, Len(d))
    ELSE d \o << << k, v >> >>

\* mutant: the first key of a value is kept
Inverted_first(d) ==
    LET firsts == { j \in 1..Len(d) : \A h \in 1..(j - 1) : d[h][2] # d[j][2] }
        n == Cardinality(firsts)
        nth(x) == CHOOSE j \in firsts : Cardinality({ h \in firsts : h < j }) = x - 1
    IN  SubSeq([x \in 1..n |-> << d[nth(x)][2], d[nth(x)][1] >>], 1, n)

\* {v: k for k, v in d.items()}, lines 37, 55, 90
RECURSIVE InvertedFrom(_, _)
InvertedFrom(d, done) ==
    IF d = << >> THEN done
    ELSE InvertedFrom(Tail(d), DictPut(done, Head(d)[2], Head(d)[1]))

Inverted(d) == InvertedFrom(d, << >>)

\* dict(zip(keys, values)) for two lists of the same length without repeats
Zip(keys, values) ==
    SubSeq([j \in 1..Len(keys) |-> << keys[j], values[j] >>], 1, Len(keys))

\* the orders random.shuffle can leave a list in: unchanged, rotated by one
\* and reversed
Shuffles == { "same", "rotated", "reversed" }

Shuffled(list, how) ==
    IF how = "same" THEN list
    ELSE IF how = "rotated"
         THEN SubSeq([j \in 1..Len(list) |-> list[(j % Len(list)) + 1]], 1, Len(list))
         ELSE reversed(list)

\* the dicts a caller passes to set_key or finds in a key file: a rotation of
\* the English alphabet, the reversed Spanish alphabet, a map without Z, a
\* map onto one letter, a map onto lower-case letters, and a map that sends
\* both A and B to B and has the extra key '1'
RotatedEnglish == Zip(alphabets["en"], Shuffled(alphabets["en"], "rotated"))

KeyMaps ==
    { RotatedEnglish,
      Zip(alphabets["es"], Shuffled(alphabets["es"], "reversed")),
      SubSeq(RotatedEnglish, 1, 25),
      Zip(alphabets["en"], SubSeq([j \in 1..26 |-> 65], 1, 26)),
      Zip(alphabets["en"], SubSeq([j \in 1..26 |-> 96 + j], 1, 26)),
      Zip(alphabets["en"],
          SubSeq([j \in 1..26 |-> IF j = 1 THEN 66 ELSE 64 + j], 1, 26))
          \o << << 49, 65 >> >> }

\* the contents of the key files a caller loads
KeyFiles ==
    { [cipher_type |-> "monoalphabetic", language |-> l, substitution_map |-> m] :
          l \in { "en", "es" }, m \in { RotatedEnglish,
                                        Zip(alphabets["es"], Shuffled(alphabets["es"], "reversed")) } }
        \cup { [cipher_type |-> "affine", language |-> "en", substitution_map |-> << >>],
               [cipher_type |-> "monoalphabetic", language |-> "fr",
                substitution_map |-> RotatedEnglish] }

\* the texts a caller encrypts or decrypts
MonoTexts == { << >>, << 65 >>, << 98, 90 >>, << 66, 32 >>, << 227, 49 >> }

\* the call becomes mono_cur, the former mono_cur becomes mono_prev
MonoReturn(op, arg, out, status) ==
    /\ mono_cur' = [op |-> op, arg |-> arg, out |-> out, status |-> status]
    /\ mono_prev' = mono_cur

\* set_key, lines 49-52: the error it raises for a dict, or "ok"
set_key_check(map, alpha) ==
    IF ~(Chars(alpha) \subseteq DictKeys(map)) THEN "missing"
    ELSE IF Cardinality(DictValues(map)) # Len(alpha) THEN "duplicate"
    ELSE "ok"

\* the loop of encrypt (lines 70-76) and of decrypt (lines 94-100) over the
\* upper-cased text with the dict it looks up; a missing key is a KeyError
Substitute(text, map, alpha) ==
    LET up == upper(text)
    IN  IF \E j \in 1..Len(up) : up[j] \in Chars(alpha) /\ up[j] \notin DictKeys(map)
        THEN [status |-> "keyerror", out |-> << >>]
        ELSE [status |-> "ok",
              out |-> SubSeq([j \in 1..Len(up) |->
                                 IF up[j] \in Chars(alpha) THEN DictGet(map, up[j])
                                 ELSE up[j]],
                             1, Len(up))]

\* generate_key, lines 30-39
MonoGenerateKey(how) ==
    /\ LET map == Zip(alphabet, Shuffled(alphabet, how))
       IN  /\ substitution_map' = map
           /\ reverse_map' = Inverted(map)
           /\ MonoReturn("generate_key", << >>, map, "ok")
    /\ UNCHANGED << language, alphabet, sequential, concurrent, affine, polyalphabetic >>

\* set_key, lines 41-55
MonoSetKey(map) ==
    /\ LET status == set_key_check(map, alphabet)
       IN  /\ MonoReturn("set_key", map, << >>, status)
           /\ IF status = "ok"
              THEN /\ substitution_map' = map
                   /\ reverse_map' = Inverted(map)
              ELSE UNCHANGED << substitution_map, reverse_map >>
    /\ UNCHANGED << language, alphabet, sequential, concurrent, affine, polyalphabetic >>

\* encrypt, lines 57-76; how is the order random.shuffle leaves when a key
\* is generated
MonoEncrypt(text, how) ==
    /\ substitution_map # << >> => how = "same"
    /\ LET map == IF substitution_map = << >>
                  THEN Zip(alphabet, Shuffled(alphabet, how))
                  ELSE substitution_map
           r == Substitute(text, map, alphabet)
       IN  /\ substitution_map' = map
           /\ reverse_map' = IF substitution_map = << >> THEN Inverted(map)
                              ELSE reverse_map
           /\ MonoReturn("encrypt", text, r.out, r.status)
    /\ UNCHANGED << language, alphabet, sequential, concurrent, affine, polyalphabetic >>

\* the texts a caller decrypts: any, or the ciphertext it just got
MonoCiphertexts ==
    IF mono_cur.op = "encrypt" /\ mono_cur.status = "ok"
    THEN MonoTexts \cup { mono_cur.out }
    ELSE MonoTexts

\* decrypt, lines 78-100
MonoDecrypt(text) ==
    /\ text \in MonoCiphertexts
    /\ IF reverse_map = << >> /\ substitution_map = << >>
       THEN /\ MonoReturn("decrypt", text, << >>, "nokey")
            /\ UNCHANGED reverse_map
       ELSE LET map == IF reverse_map = << >> THEN Inverted(substitution_map)
                       ELSE reverse_map
                r == Substitute(text, map, alphabet)
            IN  /\ reverse_map' = map
                /\ MonoReturn("decrypt", text, r.out, r.status)
    /\ UNCHANGED << language, alphabet, substitution_map, sequential, concurrent, affine, polyalphabetic >>

\* load_key, lines 114-123, for a file that holds JSON written by save_key:
\* the language and the alphabet are assigned before set_key checks the dict
MonoLoadKey(file) ==
    /\ IF file.cipher_type # "monoalphabetic"
       THEN /\ MonoReturn("load_key", file, << >>, "filetype")
            /\ UNCHANGED << language, alphabet, substitution_map, reverse_map >>
       ELSE /\ language' = file.language
            /\ IF file.language \notin DOMAIN alphabets
               THEN /\ MonoReturn("load_key", file, << >>, "keyerror")
                    /\ UNCHANGED << alphabet, substitution_map, reverse_map >>
               ELSE LET status == set_key_check(file.substitution_map,
                                                alphabets[file.language])
                    IN  /\ alphabet' = alphabets[file.language]
                        /\ MonoReturn("load_key", file, << >>, status)
                        /\ IF status = "ok"
                           THEN /\ substitution_map' = file.substitution_map
                                /\ reverse_map' = Inverted(file.substitution_map)
                           ELSE UNCHANGED << substitution_map, reverse_map >>
    /\ UNCHANGED << sequential, concurrent, affine, polyalphabetic >>

NextMono ==
    \/ \E how \in Shuffles : MonoGenerateKey(how)
    \/ \E map \in KeyMaps : MonoSetKey(map)
    \/ \E how \in Shuffles : \E text \in MonoTexts : MonoEncrypt(text, how)
    \/ \E text \in MonoCiphertexts : MonoDecrypt(text)
    \/ \E file \in KeyFiles : MonoLoadKey(file)

SpecMono == Init /\ [][NextMono]_vars

(***************************************************************************)
(* AffineCipher                                                            *)
(***************************************************************************)

\* the loop of _mod_inverse, lines 53-56; it ends with the final << t, r >>
RECURSIVE ModInverseLoop(_, _, _, _)
ModInverseLoop(t, new_t, r, new_r) ==
    IF new_r = 0 THEN << t, r >>
    ELSE LET quotient == r \div new_r
         IN  ModInverseLoop(new_t, t - quotient * new_t, new_r, r - quotient * new_r)

\* mutant: a negative t is returned as it is
_mod_inverse_signed(a, m) ==
    LET tr == ModInverseLoop(0, 1, m, a)
    IN  IF tr[2] > 1 THEN [status |-> "noinverse", out |-> 0]
        ELSE [status |-> "ok", out |-> tr[1]]

\* _mod_inverse, lines 50-63, for a positive a
_mod_inverse(a, m) ==
    LET tr == ModInverseLoop(0, 1, m, a)
    IN  IF tr[2] > 1 THEN [status |-> "noinverse", out |-> 0]
        ELSE [status |-> "ok", out |-> IF tr[1] < 0 THEN tr[1] + m ELSE tr[1]]

\* self.alphabet.index(char), from 0
IndexOf(alpha, char) == (CHOOSE j \in 1..Len(alpha) : alpha[j] = char) - 1

\* the loops of encrypt (lines 91-99) and decrypt (lines 117-126): every
\* letter at index x becomes the letter at index (factor * (x + shift)
\* + offset) % m
AffineMap(cipher, text, factor, shift, offset) ==
    LET up == upper(text)
    IN  SubSeq([j \in 1..Len(up) |->
                   IF up[j] \in Chars(cipher.alphabet)
                   THEN cipher.alphabet[
                            ((factor * (IndexOf(cipher.alphabet, up[j]) + shift)
                                 + offset) % cipher.m) + 1]
                   ELSE up[j]],
               1, Len(up))

\* encrypt, lines 88-99
affine_encrypt(cipher, plaintext, a, b) ==
    IF a \notin cipher.valid_a_values THEN [status |-> "invalidkey", out |-> << >>]
    ELSE [status |-> "ok", out |-> AffineMap(cipher, plaintext, a, 0, b)]

\* decrypt, lines 113-126
affine_decrypt(cipher, ciphertext, a, b) ==
    IF a \notin cipher.valid_a_values THEN [status |-> "invalidkey", out |-> << >>]
    ELSE LET a_inv == _mod_inverse(a, cipher.m)
         IN  IF a_inv.status # "ok" THEN [status |-> "noinverse", out |-> << >>]
             ELSE [status |-> "ok",
                   out |-> AffineMap(cipher, ciphertext, a_inv.out, 0 - b, 0)]

\* the languages a caller constructs the cipher with
AffineLanguages == { "en", "es", "fr" }

\* the keys a caller passes: every a from -1 to 29, b negative, zero, inside
\* and beyond the alphabet
AffineAs == (0 - 1)..29

AffineBs == { 0 - 27, 0 - 1, 0, 5, 28, 100 }

\* the texts a caller passes
AffineTexts == { << 65 >>, << 98, 90 >>, << 227, 49 >>, << 32, 8216, 77 >> }

\* the caller may make a call on the object
AffineCanCall == affine_prev.op = "none"

\* the call becomes affine_cur, the former affine_cur becomes affine_prev
AffineReturn(op, text, a, b, r) ==
    /\ affine_cur' = [op |-> op, text |-> text, a |-> a, b |-> b,
                      out |-> r.out, status |-> r.status]
    /\ affine_prev' = affine_cur
    /\ UNCHANGED << affine_cipher, sequential, concurrent, monoalphabetic, polyalphabetic >>

\* AffineCipher(language): a new object, no call made on it yet
AffineNew(lang) ==
    /\ affine_cur.op = "none"
    /\ affine_cipher' = AffineCipher(lang)
    /\ UNCHANGED << affine_cur, affine_prev, sequential, concurrent, monoalphabetic, polyalphabetic >>

AffineEncrypt(text, a, b) ==
    /\ AffineCanCall
    /\ affine_cur.op = "none"
    /\ AffineReturn("encrypt", text, a, b, affine_encrypt(affine_cipher, text, a, b))

\* the texts a caller decrypts with the key a, b: any first, the returned
\* ciphertext with its key after an encrypt
AffineCiphertexts(a, b) ==
    IF affine_cur.op = "none" THEN AffineTexts
    ELSE IF affine_cur.op = "encrypt" /\ affine_cur.status = "ok"
              /\ a = affine_cur.a /\ b = affine_cur.b
         THEN { affine_cur.out }
         ELSE { }

AffineDecrypt(text, a, b) ==
    /\ AffineCanCall
    /\ text \in AffineCiphertexts(a, b)
    /\ AffineReturn("decrypt", text, a, b, affine_decrypt(affine_cipher, text, a, b))

\* _mod_inverse(a, self.m), as decrypt calls it on line 116
AffineModInverse(a) ==
    /\ AffineCanCall
    /\ affine_cur.op = "none"
    /\ a \in affine_cipher.valid_a_values
    /\ AffineReturn("_mod_inverse", << >>, a, 0, _mod_inverse(a, affine_cipher.m))

\* the caller drops what it holds and starts over
AffineReset ==
    /\ affine_cur.op # "none"
    /\ affine_cur' = NoAffineCall
    /\ affine_prev' = NoAffineCall
    /\ UNCHANGED << affine_cipher, sequential, concurrent, monoalphabetic, polyalphabetic >>

NextAffine ==
    \/ \E lang \in AffineLanguages : AffineNew(lang)
    \/ \E text \in AffineTexts : \E a \in AffineAs : \E b \in AffineBs :
           AffineEncrypt(text, a, b)
    \/ \E a \in AffineAs : \E b \in AffineBs : \E text \in AffineCiphertexts(a, b) :
           AffineDecrypt(text, a, b)
    \/ \E a \in AffineAs : AffineModInverse(a)
    \/ AffineReset

SpecAffine == Init /\ [][NextAffine]_vars

(***************************************************************************)
(* PolyalphabeticCipher                                                    *)
(***************************************************************************)

\* [self.alphabet.index(k) for k in key.upper()], lines 53 and 82; index
\* raises ValueError for a character that is not in the alphabet
KeyIndices(cipher, key) ==
    LET up == upper(key)
    IN  IF Chars(up) \subseteq Chars(cipher.alphabet)
        THEN [status |-> "ok",
              out |-> SubSeq([j \in 1..Len(up) |-> IndexOf(cipher.alphabet, up[j])],
                             1, Len(up))]
        ELSE [status |-> "valueerror", out |-> << >>]

\* the loops of encrypt (lines 56-66) and decrypt (lines 85-95) over the rest
\* of the upper-cased text: position is the counter i, sign is 1 to add the key
\* index and -1 to subtract it, done is the text built so far; i % key_length
\* raises ZeroDivisionError when key_length is 0
RECURSIVE PolyLoop(_, _, _, _, _, _, _)
PolyLoop(cipher, rest, key_indices, key_length, sign, position, done) ==
    IF rest = << >> THEN [status |-> "ok", out |-> done]
    ELSE IF Head(rest) \notin Chars(cipher.alphabet)
         THEN PolyLoop(cipher, Tail(rest), key_indices, key_length, sign, position,
                       done \o << Head(rest) >>)
    ELSE IF key_length = 0 THEN [status |-> "zerodivision", out |-> << >>]
    ELSE LET idx == IndexOf(cipher.alphabet, Head(rest))
             key_idx == key_indices[(position % key_length) + 1]
         IN  PolyLoop(cipher, Tail(rest), key_indices, key_length, sign, position + 1,
                      done \o << cipher.alphabet[((idx + sign * key_idx) % cipher.m) + 1] >>)

\* encrypt, lines 52-68, with sign 1; decrypt, lines 81-97, with sign -1
PolyShift(cipher, text, key, sign) ==
    LET key_indices == KeyIndices(cipher, key)
    IN  IF key_indices.status # "ok" THEN key_indices
        ELSE PolyLoop(cipher, upper(text), key_indices.out, Len(key), sign, 0, << >>)

poly_encrypt(cipher, plaintext, key) == PolyShift(cipher, plaintext, key, 1)

poly_decrypt(cipher, ciphertext, key) == PolyShift(cipher, ciphertext, key, 0 - 1)

\* the languages a caller constructs the cipher with
PolyLanguages == { "en", "es" }

\* the keys a caller passes: the empty key, one letter, lower and upper case,
\* a key longer than the texts, a key with a digit, a key with U+00C3
PolyKeys ==
    { << >>, << 66 >>, << 107, 90 >>, << 67, 105, 80, 72, 69 >>,
      << 65, 49 >>, << 195, 66 >> }

\* the texts a caller passes: empty, without letters, letters only, letters
\* around other characters
PolyTexts ==
    { << >>, << 49, 32 >>, << 72, 105 >>, << 97, 32, 98, 49, 90 >>,
      << 227, 44, 8216, 77 >> }

\* the caller may make a call on the object
PolyCanCall == poly_prev.op = "none"

\* the call becomes poly_cur, the former poly_cur becomes poly_prev
PolyReturn(op, text, key, r) ==
    /\ poly_cur' = [op |-> op, text |-> text, key |-> key,
                    out |-> r.out, status |-> r.status]
    /\ poly_prev' = poly_cur
    /\ UNCHANGED << poly_cipher, sequential, concurrent, monoalphabetic, affine >>

\* PolyalphabeticCipher(language): a new object, no call made on it yet
PolyNew(lang) ==
    /\ poly_cur.op = "none"
    /\ poly_cipher' = PolyalphabeticCipher(lang)
    /\ UNCHANGED << poly_cur, poly_prev, sequential, concurrent, monoalphabetic, affine >>

PolyEncrypt(text, key) ==
    /\ PolyCanCall
    /\ poly_cur.op = "none"
    /\ PolyReturn("encrypt", text, key, poly_encrypt(poly_cipher, text, key))

\* the texts a caller decrypts with a key: any first, the returned ciphertext
\* with its key after an encrypt
PolyCiphertexts(key) ==
    IF poly_cur.op = "none" THEN PolyTexts
    ELSE IF poly_cur.op = "encrypt" /\ poly_cur.status = "ok" /\ key = poly_cur.key
         THEN { poly_cur.out }
         ELSE { }

PolyDecrypt(text, key) ==
    /\ PolyCanCall
    /\ text \in PolyCiphertexts(key)
    /\ PolyReturn("decrypt", text, key, poly_decrypt(poly_cipher, text, key))

\* the caller drops what it holds and starts over
PolyReset ==
    /\ poly_cur.op # "none"
    /\ poly_cur' = NoPolyCall
    /\ poly_prev' = NoPolyCall
    /\ UNCHANGED << poly_cipher, sequential, concurrent, monoalphabetic, affine >>

NextPoly ==
    \/ \E lang \in PolyLanguages : PolyNew(lang)
    \/ \E text \in PolyTexts : \E key \in PolyKeys : PolyEncrypt(text, key)
    \/ \E key \in PolyKeys : \E text \in PolyCiphertexts(key) : PolyDecrypt(text, key)
    \/ PolyReset

SpecPoly == Init /\ [][NextPoly]_vars

(***************************************************************************)
(* Properties                                                              *)
(***************************************************************************)

\* the caller decrypted, with the same key, what the previous call returned
DecryptedPrevious(encOp, decOp) ==
    /\ prev.op = encOp
    /\ cur.op = decOp
    /\ cur.key = prev.key
    /\ cur.arg = IF encOp = "encrypt_block" /\ decOp = "decrypt" THEN to_bytes(prev.out)
                 ELSE prev.out

\* C1: decrypt_block of the result of encrypt_block, under the same key,
\* gives back the block that was encrypted.
C1_BlockRoundTrip ==
    DecryptedPrevious("encrypt_block", "decrypt_block") => cur.out = prev.arg

C1_Witness ==
    /\ DecryptedPrevious("encrypt_block", "decrypt_block")
    /\ prev.key = VectorKey
    /\ prev.arg = VectorBlock
    /\ cur.out = VectorBlock

\* C2: decrypt of the result of encrypt, under the same key, succeeds and
\* returns the text that was encrypted, the empty text included.
C2_StreamRoundTrip ==
    DecryptedPrevious("encrypt", "decrypt")
        => cur.status = "ok" /\ cur.out = prev.arg

C2_Witness ==
    /\ DecryptedPrevious("encrypt", "decrypt")
    /\ prev.arg = << >>
    /\ cur.status = "ok"
    /\ cur.out = << >>

\* 0x85E813540F0AB405
VectorCiphertext == HexBits(<< 8, 5, 14, 8, 1, 3, 5, 4, 0, 15, 0, 10, 11, 4, 0, 5 >>)

\* C3: encrypt_block(0x0123456789ABCDEF, 0x133457799BBCDFF1) returns
\* 0x85E813540F0AB405.
C3_KnownVector ==
    (cur.op = "encrypt_block" /\ cur.arg = VectorBlock /\ cur.key = VectorKey)
        => cur.out = VectorCiphertext

C3_Witness ==
    /\ cur.op = "encrypt_block"
    /\ cur.arg = VectorBlock
    /\ cur.key = VectorKey
    /\ cur.out = VectorCiphertext

\* an encrypt call has just returned: the locals are those of that call
EncryptReturned == pc = "idle" /\ cur.op = "encrypt"

\* C4: encrypt always pads: a plaintext of n bytes gives 8 * (n div 8 + 1)
\* bytes of output; between 1 and 8 pad bytes are added after the plaintext,
\* each equal to their number, and eight bytes of value 8 when n is a
\* multiple of 8.
C4_PaddingAlwaysAdded ==
    EncryptReturned =>
        LET n == Len(data)
            added == Len(padded_data) - n
        IN  /\ n = Len(utf8_encode(cur.arg))
            /\ Len(cur.out) = 8 * ((n \div 8) + 1)
            /\ Len(cur.out) = Len(padded_data)
            /\ added \in 1..8
            /\ SubSeq(padded_data, 1, n) = data
            /\ \A j \in (n + 1)..Len(padded_data) : padded_data[j] = added
            /\ (n % 8 = 0 => added = 8)

C4_Witness ==
    /\ EncryptReturned
    /\ Len(data) = 8
    /\ Len(cur.out) = 16
    /\ SubSeq(padded_data, 9, 16) = << 8, 8, 8, 8, 8, 8, 8, 8 >>

\* C5: decrypt of a ciphertext whose length is not a multiple of 8 fails with
\* the length error and has made no call of decrypt_block and produced no
\* byte.
C5_InvalidLengthRejected ==
    (cur.op = "decrypt" /\ Len(cur.arg) % 8 # 0)
        => cur.status = "length" /\ calls = 0 /\ result = << >>

C5_Witness ==
    /\ cur.op = "decrypt"
    /\ Len(cur.arg) = 7
    /\ cur.status = "length"
    /\ calls = 0

\* the caller decrypted, with the same key, what encrypt returned with its
\* last byte replaced by another value, greater than 8
TamperedPrevious ==
    /\ prev.op = "encrypt"
    /\ cur.op = "decrypt"
    /\ cur.key = prev.key
    /\ cur.arg # prev.out
    /\ \E v \in TamperValues : v > 8 /\ cur.arg = Tamper(prev.out, v)

\* the last byte N of the data is at most 8 and the last N bytes equal N
WellFormedTail(d) ==
    /\ Len(d) > 0
    /\ d[Len(d)] <= 8
    /\ \A j \in 1..d[Len(d)] : j <= Len(d) /\ d[Len(d) + 1 - j] = d[Len(d)]

\* C6 as stated: decrypt of a ciphertext whose last byte was replaced by a
\* value greater than 8 fails with the padding error.
C6_TamperedPaddingRejected ==
    TamperedPrevious => cur.status = "padding"

\* C6 amended: decrypt of such a ciphertext fails with the padding error
\* exactly when the last byte N of the decrypted data is greater than 8 or
\* one of the last N decrypted bytes differs from N.
C6_TamperedPaddingAmended ==
    TamperedPrevious => (cur.status = "padding" <=> ~WellFormedTail(result))

C6_Witness ==
    /\ TamperedPrevious
    /\ cur.arg = Tamper(prev.out, 200)
    /\ result[Len(result)] > 8
    /\ cur.status = "padding"

\* C7: unpadding takes the last decrypted byte N, accepts only 1 <= N <= 8
\* with the last N bytes equal to N and then removes exactly these N bytes;
\* it fails with the padding error for every other final byte, so a
\* successful decrypt of L bytes returns between L-8 and L-1 bytes of text.
C7_UnpadAcceptsOnlyPkcs7 ==
    (cur.op = "decrypt" /\ Len(cur.arg) > 0 /\ Len(cur.arg) % 8 = 0) =>
        LET N == result[Len(result)]
            accepted == /\ N \in 1..8
                        /\ \A j \in 1..N : result[Len(result) + 1 - j] = N
        IN  /\ accepted => /\ cur.status \in { "ok", "decode" }
                           /\ unpadded = SubSeq(result, 1, Len(result) - N)
            /\ ~accepted => cur.status = "padding"
            /\ cur.status = "ok" =>
                   Len(utf8_encode(cur.out)) \in (Len(cur.arg) - 8)..(Len(cur.arg) - 1)

\* C8: decrypt returns text or fails with one of the three documented
\* errors: length, padding, decoding.
C8_OnlyThreeErrors ==
    cur.op = "decrypt" => cur.status \in { "ok", "length", "padding", "decode" }

\* C9: generate_subkeys returns 16 values of 48 bits each.
C9_SubkeyCountAndWidth ==
    cur.op = "generate_subkeys" =>
        /\ Len(cur.out) = 16
        /\ \A r \in DOMAIN cur.out :
               /\ Len(cur.out[r]) = 48
               /\ \A b \in DOMAIN cur.out[r] : cur.out[r][b] \in Bit

C9_Witness ==
    /\ prev.op = "generate_subkeys"
    /\ prev.key = ZeroKey
    /\ cur.op = "generate_subkeys"
    /\ cur.key = OnesKey
    /\ Len(cur.out) = 16

\* the caller made the same call twice, changing only the key
SameCallOtherKey ==
    /\ prev.op = cur.op
    /\ \/ cur.op = "generate_subkeys"
       \/ cur.op \in BlockOps /\ cur.arg = prev.arg

\* the keys agree on their high 56 bits
DifferOnlyInLowByte(k1, k2) == SubSeq(k1, 1, 56) = SubSeq(k2, 1, 56)

\* the keys agree everywhere but on the lowest bit of each byte
DifferOnlyInParityBits(k1, k2) ==
    \A p \in 1..64 : p % 8 # 0 => k1[p] = k2[p]

BlockOf(bytes, p) == SubSeq(bytes, 8 * p - 7, 8 * p)

BlockCount(bytes) == Len(bytes) \div 8

\* the caller encrypted twice under the same key
EncryptedTwice ==
    /\ prev.op = "encrypt"
    /\ cur.op = "encrypt"
    /\ cur.key = prev.key

\* C11: encrypt is deterministic and position-independent: equal 8-byte
\* blocks of the padded plaintext give equal ciphertext blocks at their
\* positions, and a second call with the same text and key returns the same
\* bytes.
C11_EcbDeterminism ==
    /\ EncryptReturned =>
           \A p, q \in 1..BlockCount(padded_data) :
               BlockOf(padded_data, p) = BlockOf(padded_data, q)
                   => BlockOf(cur.out, p) = BlockOf(cur.out, q)
    /\ (EncryptedTwice /\ cur.arg = prev.arg) => cur.out = prev.out

C11_Witness ==
    /\ EncryptReturned
    /\ EncryptedTwice
    /\ cur.arg = prev.arg
    /\ BlockCount(padded_data) = 3
    /\ BlockOf(padded_data, 1) = BlockOf(padded_data, 2)
    /\ BlockOf(cur.out, 1) = BlockOf(cur.out, 2)
    /\ BlockOf(cur.out, 1) # BlockOf(cur.out, 3)

\* C12: generate_key never fails and returns a 64-bit integer whose low 8
\* bits are zero and whose upper 56 bits are the random value.
C12_GeneratedKeyShape ==
    cur.op = "generate_key" =>
        /\ cur.status = "ok"
        /\ Len(cur.out) = 64
        /\ \A j \in 1..Len(cur.out) : cur.out[j] \in Bit
        /\ \A j \in 57..64 : cur.out[j] = 0
        /\ SubSeq(cur.out, 1, 56) = cur.arg

C12_Witness ==
    /\ cur.op = "generate_key"
    /\ \A j \in 1..56 : cur.out[j] = 1
    /\ cur.out[64] = 0

IsWord(value, width) ==
    /\ Len(value) = width
    /\ \A j \in 1..Len(value) : value[j] \in Bit

\* C13: encrypt_block and decrypt_block never fail and return a 64-bit value;
\* in each of the 16 rounds both halves are 32-bit values, the new left half
\* is the old right half and the new right half is the old left half XOR
\* F(old right half, subkey).
C13_RoundsStayInRange ==
    cur.op \in BlockOps =>
        LET rounds == BlockRounds(cur.op, cur.arg, cur.key)
            subkeys == SubkeyOrder(cur.op, cur.key)
        IN  /\ cur.status = "ok"
            /\ IsWord(cur.out, 64)
            /\ Len(rounds) = 17
            /\ IsWord(rounds[1][1], 32) /\ IsWord(rounds[1][2], 32)
            /\ \A r \in 1..16 :
                   /\ IsWord(rounds[r + 1][1], 32)
                   /\ IsWord(rounds[r + 1][2], 32)
                   /\ rounds[r + 1][1] = rounds[r][2]
                   /\ rounds[r + 1][2] =
                          Xor(rounds[r][1], f_function(rounds[r][2], subkeys[r]))
            /\ cur.out = permute(rounds[17][2] \o rounds[17][1], IP_INV, 64)

C13_Witness ==
    /\ cur.op = "decrypt_block"
    /\ prev.op = "encrypt_block"
    /\ cur.key = VectorKey
    /\ cur.arg = VectorCiphertext
    /\ BlockRounds(cur.op, cur.arg, cur.key)[17][2] # BlockRounds(cur.op, cur.arg, cur.key)[1][1]

DecryptReturned == pc = "idle" /\ cur.op = "decrypt"

\* C14: decrypt checks in a fixed order: no block is transformed for a
\* ciphertext of invalid length, the padding is checked only after all
\* len(ciphertext)/8 blocks are decrypted, the decoding runs only after the
\* unpadding succeeded; a padding error follows exactly len(ciphertext)/8 calls
\* of decrypt_block and a decoding error is never reported for data whose
\* padding is invalid.
C14_DecryptCheckOrder ==
    /\ pc = "dec_loop" =>
           /\ ~LengthInvalid(call.arg)
           /\ calls = i \div 8
           /\ i <= Len(call.arg)
    /\ pc = "dec_decode" =>
           /\ calls = Len(call.arg) \div 8
           /\ _unpad_data(result).status = "ok"
           /\ unpadded = _unpad_data(result).data
    /\ (DecryptReturned /\ cur.status = "length") =>
           /\ LengthInvalid(cur.arg)
           /\ calls = 0
    /\ (DecryptReturned /\ cur.status = "padding") =>
           /\ calls = Len(cur.arg) \div 8
           /\ Len(result) = Len(cur.arg)
    /\ (DecryptReturned /\ cur.status = "decode") =>
           /\ calls = Len(cur.arg) \div 8
           /\ WellFormedTail(result)

C14_Witness ==
    /\ DecryptReturned
    /\ cur.status = "padding"
    /\ calls = 2
    /\ Len(cur.arg) = 16

\* C15: decrypt_block is the procedure of encrypt_block run with the 16
\* subkeys in reverse order, and the subkeys it consumes are the generated
\* ones, bit for bit.
C15_DecryptIsEncryptReversed ==
    LET subkeys == generate_subkeys(cur.key)
        backwards == SubSeq([r \in 1..16 |-> subkeys[17 - r]], 1, 16)
    IN  /\ cur.op = "encrypt_block" =>
               cur.out = EncryptProcedure(cur.arg, subkeys)
        /\ cur.op = "decrypt_block" =>
               /\ SubkeyOrder(cur.op, cur.key) = backwards
               /\ cur.out = EncryptProcedure(cur.arg, backwards)

C15_Witness ==
    /\ cur.op = "decrypt_block"
    /\ cur.key = VectorKey
    /\ cur.arg = VectorBlock
    /\ cur.out # EncryptProcedure(cur.arg, generate_subkeys(cur.key))

\* the 64-bit value whose most significant byte is the first of 8 bytes
BigEndianValue(bytes) ==
    SubSeq([j \in 1..64 |->
               (bytes[((j - 1) \div 8) + 1] \div (2 ^ (7 - ((j - 1) % 8)))) % 2],
           1, 64)

\* the 8 bytes of a 64-bit value, most significant byte first
BigEndianBytes(value) ==
    SubSeq([j \in 1..8 |-> BitsToNat(SubSeq(value, 8 * j - 7, 8 * j))], 1, 8)

\* the padded plaintext of the caller's previous encrypt call
PreviousPadded == _pad_data(utf8_encode(prev.arg))

\* C16: output block p of encrypt is encrypt_block of block p of the padded
\* plaintext, read and written big-endian, in input order; a second call
\* whose padded plaintext has the same length and differs in some blocks
\* returns the same ciphertext block at every other position.
C16_BlockwiseFrame ==
    /\ EncryptReturned =>
           /\ Len(cur.out) = Len(padded_data)
           /\ \A p \in 1..BlockCount(padded_data) :
                  BlockOf(cur.out, p) =
                      BigEndianBytes(encrypt_block(
                          BigEndianValue(BlockOf(padded_data, p)), cur.key))
    /\ (EncryptReturned /\ EncryptedTwice /\ Len(PreviousPadded) = Len(padded_data)) =>
           \A p \in 1..BlockCount(padded_data) :
               BlockOf(PreviousPadded, p) = BlockOf(padded_data, p)
                   => BlockOf(prev.out, p) = BlockOf(cur.out, p)

C16_Witness ==
    /\ EncryptReturned
    /\ EncryptedTwice
    /\ BlockCount(padded_data) = 3
    /\ Len(PreviousPadded) = Len(padded_data)
    /\ BlockOf(PreviousPadded, 2) # BlockOf(padded_data, 2)
    /\ BlockOf(prev.out, 2) # BlockOf(cur.out, 2)
    /\ BlockOf(prev.out, 1) = BlockOf(cur.out, 1)
    /\ BlockOf(prev.out, 3) = BlockOf(cur.out, 3)

\* the keys whose 56 selected bits are all equal
WeakKeys == { ZeroKey, OnesKey }

\* the caller passed a block to encrypt_block and made a second block call
\* under the same all-zero or all-one key
WeakKeyPair(secondOp) ==
    /\ prev.op = "encrypt_block"
    /\ cur.op = secondOp
    /\ prev.key \in WeakKeys
    /\ cur.key = prev.key

\* C18: for the all-zero and the all-one key the 16 subkeys are equal,
\* encrypting twice returns the block, and encrypt_block and decrypt_block
\* return the same value for every block.
C18_WeakKeyInvolution ==
    /\ (cur.op = "generate_subkeys" /\ cur.key \in WeakKeys) =>
           \A r \in 1..Len(cur.out) : cur.out[r] = cur.out[1]
    /\ (WeakKeyPair("encrypt_block") /\ cur.arg = prev.out) => cur.out = prev.arg
    /\ (WeakKeyPair("decrypt_block") /\ cur.arg = prev.arg) => cur.out = prev.out

C18_Witness ==
    /\ WeakKeyPair("encrypt_block")
    /\ cur.key = ZeroKey
    /\ prev.arg = VectorBlock
    /\ cur.arg = prev.out
    /\ prev.out # prev.arg
    /\ cur.out = prev.arg

\* C17: the engine keeps no hidden mutable state: whatever the interleaving
\* of the calls of two callers on one engine, failing calls included, each
\* call returns what it returns when it runs alone, and the tables of the
\* engine are unchanged.
C17_NoHiddenState ==
    /\ tables = EngineTables
    /\ \A c \in Callers :
           frames[c].pc = "done" =>
               LET alone == RunAlone(frames[c].op, frames[c].key, frames[c].arg)
               IN  /\ frames[c].status = alone.status
                   /\ frames[c].out = alone.out

\* one caller got its ciphertext while the other, started before it, is
\* still inside its loop
C17_Witness ==
    /\ frames[1].pc = "done"
    /\ frames[1].op = "encrypt"
    /\ frames[1].status = "ok"
    /\ Len(frames[1].out) = 16
    /\ frames[2].pc = "dec_loop"
    /\ frames[2].i = 8

\* the dict restricted to the alphabet is a bijection of the alphabet onto
\* itself
IsAlphabetBijection(map) ==
    /\ Chars(alphabet) \subseteq DictKeys(map)
    /\ \A c \in Chars(alphabet) : DictGet(map, c) \in Chars(alphabet)
    /\ \A c, d \in Chars(alphabet) : DictGet(map, c) = DictGet(map, d) => c = d

\* the dict sends the image of every letter back to the letter
IsInverseOn(reverse, map) ==
    \A c \in Chars(alphabet) :
        /\ c \in DictKeys(map)
        /\ DictGet(map, c) \in DictKeys(reverse)
        /\ DictGet(reverse, DictGet(map, c)) = c

\* the caller decrypted the text encrypt just returned
MonoDecryptedPrevious ==
    /\ mono_prev.op = "encrypt"
    /\ mono_prev.status = "ok"
    /\ mono_cur.op = "decrypt"
    /\ mono_cur.arg = mono_prev.out

\* C19 as stated: whatever calls were made, a non-empty substitution_map is
\* a bijection of the alphabet onto itself, a non-empty reverse_map is its
\* inverse, decrypt(encrypt(t)) is t.upper(), decrypt without a key raises
\* 'No decryption key available' and encrypt without a key stores one.
C19_KeyStaysConsistent ==
    /\ substitution_map # << >> => IsAlphabetBijection(substitution_map)
    /\ reverse_map # << >> => IsInverseOn(reverse_map, substitution_map)
    /\ MonoDecryptedPrevious =>
           /\ mono_cur.status = "ok"
           /\ mono_cur.out = upper(mono_prev.arg)
    /\ (mono_cur.op = "decrypt" /\ substitution_map = << >>) =>
           mono_cur.status = "nokey"
    /\ mono_cur.op = "encrypt" => substitution_map # << >>

\* a is one of 1..m-1 and has no divisor above 1 in common with m
ValidA(a, m) ==
    /\ a \in 1..(m - 1)
    /\ \A d \in 2..m : ~(a % d = 0 /\ m % d = 0)

\* the caller decrypted the text encrypt just returned, with the same key
AffineDecryptedPrevious ==
    /\ affine_prev.op = "encrypt"
    /\ affine_prev.status = "ok"
    /\ affine_cur.op = "decrypt"
    /\ affine_cur.text = affine_prev.out
    /\ affine_cur.a = affine_prev.a
    /\ affine_cur.b = affine_prev.b

PolyDecryptedPrevious ==
    /\ poly_prev.op = "encrypt"
    /\ poly_prev.status = "ok"
    /\ poly_cur.op = "decrypt"
    /\ poly_cur.text = poly_prev.out
    /\ poly_cur.key = poly_prev.key

\* the letters of the alphabet among the first n characters of a text
LettersBefore(text, n) ==
    Cardinality({ j \in 1..n : text[j] \in Chars(poly_cipher.alphabet) })

\* every character outside the alphabet is copied and the letter number n of
\* the text is shifted by the key letter number n modulo the key length
KeyAdvancesOnLetters(made, sign) ==
    LET up == upper(made.text)
        indices == KeyIndices(poly_cipher, made.key).out
    IN  /\ Len(made.out) = Len(up)
        /\ \A j \in 1..Len(up) :
               IF up[j] \in Chars(poly_cipher.alphabet)
               THEN made.out[j] =
                        poly_cipher.alphabet[
                            ((IndexOf(poly_cipher.alphabet, up[j])
                                 + sign * indices[(LettersBefore(up, j - 1) % Len(made.key)) + 1])
                             % poly_cipher.m) + 1]
               ELSE made.out[j] = up[j]

\* C21 as stated: for every key, the empty key included, and every text,
\* neither encrypt nor decrypt fails, decrypt(encrypt(t, key), key) is
\* t.upper(), and the key position advances only on characters of the
\* alphabet while the other characters are copied.
C21_PolyRoundTrip ==
    /\ poly_cur.op \in { "encrypt", "decrypt" } => poly_cur.status = "ok"
    /\ PolyDecryptedPrevious => poly_cur.out = upper(poly_prev.text)
    /\ (poly_cur.op = "encrypt" /\ poly_cur.status = "ok") =>
           KeyAdvancesOnLetters(poly_cur, 1)
    /\ (poly_cur.op = "decrypt" /\ poly_cur.status = "ok") =>
           KeyAdvancesOnLetters(poly_cur, 0 - 1)

====
